---- MODULE Spec2Model ----
(***************************************************************************)
(* Snake game: the Snake object (movement, growth, collisions, heading,    *)
(* breadth-first path search), the Food object and the GameController      *)
(* loop.  Cells are <<x, y>> pairs in display units; every coordinate is   *)
(* a multiple of the segment size.                                         *)
(***************************************************************************)
EXTENDS Integers, Sequences, FiniteSets, TLC

\* ------------------------------------------------------------------ bounds
\* Grid extent in cells, and the number of updates explored after a snake
\* is constructed (under any caller, and in the game loop).
GridW == 5
GridH == 3
MaxTicks == 4
MaxGameTicks == 5

\* --------------------------------------------------------------- constants
\* constants.py is not among the sources; the spec's single "cell/segment
\* size" and "grid width/height in cells" fix these.
SNAKE_SIZE_X_Y == 2
FOOD_SIZE_X_Y == SNAKE_SIZE_X_Y
DISPLAY_WIDTH == GridW * SNAKE_SIZE_X_Y
DISPLAY_HEIGHT == GridH * SNAKE_SIZE_X_Y
\* "bounds inclusive of 0 and exclusive of the grid extent"
MAX_DISPLAY_WIDTH == (DISPLAY_WIDTH - FOOD_SIZE_X_Y) \div FOOD_SIZE_X_Y
MAX_DISPLAY_HEIGHT == (DISPLAY_HEIGHT - FOOD_SIZE_X_Y) \div FOOD_SIZE_X_Y
FOOD_SCORE == 1

\* --------------------------------------------------------------- direction
\* Direction enum, in declaration (iteration) order.
Direction == <<"UP", "DOWN", "LEFT", "RIGHT">>
Directions == {Direction[i] : i \in 1..4}

DirectionValue(d) ==
    CASE d = "UP" -> <<0, -1>>
      [] d = "DOWN" -> <<0, 1>>
      [] d = "LEFT" -> <<-1, 0>>
      [] d = "RIGHT" -> <<1, 0>>

\* ------------------------------------------------------------------- state
VARIABLES
    body,       \* Snake._snake_body, tail first, head last
    direction,  \* Snake._direction
    autopilot,  \* Snake._autopilot
    food,       \* Food._x, Food._y
    score,      \* GameController._current_score
    pc,         \* position of GameController.run within its loop
    search,     \* locals of a running Snake.bfs call
    ticks,      \* updates of this snake so far
    last        \* the operation that produced this state, and its branch

vars == <<body, direction, autopilot, food, score, pc, search, ticks, last>>

\* ------------------------------------------------------------ snake queries
get_current_position(b) == b[Len(b)]

\* b[:-1]
AllButHead(b) == SubSeq(b, 1, Len(b) - 1)

SeqRange(s) == {s[i] : i \in 1..Len(s)}

\* Mutant: the far edges compared with >= (the last in-grid cell collides).
has_collided_with_wall_ge(b) ==
    LET h == get_current_position(b) IN
    \/ h[1] < 0
    \/ h[1] >= DISPLAY_WIDTH - SNAKE_SIZE_X_Y
    \/ h[2] < 0
    \/ h[2] >= DISPLAY_HEIGHT - SNAKE_SIZE_X_Y

has_collided_with_wall(b) ==
    LET h == get_current_position(b) IN
    \/ h[1] < 0
    \/ h[1] > DISPLAY_WIDTH - SNAKE_SIZE_X_Y
    \/ h[2] < 0
    \/ h[2] > DISPLAY_HEIGHT - SNAKE_SIZE_X_Y

\* Mutant: the head is looked up in the whole body, itself included.
has_collided_with_self_whole(b) ==
    get_current_position(b) \in SeqRange(b)

has_collided_with_self(b) ==
    get_current_position(b) \in SeqRange(AllButHead(b))

\* Mutant: the head is taken to be on the food whatever its cell.
has_collided_with_food_always(b, f) == TRUE

has_collided_with_food(b, f) == get_current_position(b) = f

\* --------------------------------------------------------------- heading
opposite_directions(d) ==
    CASE d = "UP" -> "DOWN"
      [] d = "DOWN" -> "UP"
      [] d = "LEFT" -> "RIGHT"
      [] d = "RIGHT" -> "LEFT"

\* Mutant: the reversal check is dropped.
set_direction_unchecked(cur, new) == new

\* The heading after set_direction(new) with heading cur.
set_direction(cur, new) ==
    IF new # opposite_directions(cur) THEN new ELSE cur

\* ------------------------------------------------------------------ bfs
\* Mutant: the body is not looked at.
valid_neighbors_no_body(c, visited, b) ==
    /\ 0 <= c[1] /\ c[1] < DISPLAY_WIDTH
    /\ 0 <= c[2] /\ c[2] < DISPLAY_HEIGHT
    /\ c \notin SeqRange(visited)

valid_neighbors(c, visited, b) ==
    /\ 0 <= c[1] /\ c[1] < DISPLAY_WIDTH
    /\ 0 <= c[2] /\ c[2] < DISPLAY_HEIGHT
    /\ c \notin SeqRange(AllButHead(b))
    /\ c \notin SeqRange(visited)

\* The locals of bfs before its while loop.
bfs_init(b) ==
    [queue |-> << [cell |-> get_current_position(b), path |-> <<>>] >>,
     visited |-> <<>>,
     done |-> FALSE,
     result |-> <<>>]

\* Mutant: the for loop runs over Direction from its last member to its
\* first.
RECURSIVE bfs_neighbors_reversed(_, _, _, _, _, _)
bfs_neighbors_reversed(i, cell, path, queue, visited, b) ==
    IF i > Len(Direction) THEN [queue |-> queue, visited |-> visited]
    ELSE LET d == DirectionValue(Direction[Len(Direction) + 1 - i])
             next == <<cell[1] + d[1] * SNAKE_SIZE_X_Y,
                       cell[2] + d[2] * SNAKE_SIZE_X_Y>>
         IN IF valid_neighbors(next, visited, b)
            THEN bfs_neighbors_reversed(i + 1, cell, path,
                               Append(queue, [cell |-> next,
                                              path |-> Append(path, next)]),
                               Append(visited, next), b)
            ELSE bfs_neighbors_reversed(i + 1, cell, path, queue, visited, b)

\* The for loop over Direction, from the i-th direction on, for the cell
\* just popped: every valid neighbour is marked visited and queued with
\* the path that leads to it.
RECURSIVE bfs_neighbors(_, _, _, _, _, _)
bfs_neighbors(i, cell, path, queue, visited, b) ==
    IF i > Len(Direction) THEN [queue |-> queue, visited |-> visited]
    ELSE LET d == DirectionValue(Direction[i])
             next == <<cell[1] + d[1] * SNAKE_SIZE_X_Y,
                       cell[2] + d[2] * SNAKE_SIZE_X_Y>>
         IN IF valid_neighbors(next, visited, b)
            THEN bfs_neighbors(i + 1, cell, path,
                               Append(queue, [cell |-> next,
                                              path |-> Append(path, next)]),
                               Append(visited, next), b)
            ELSE bfs_neighbors(i + 1, cell, path, queue, visited, b)

\* Mutant: the queue is popped at its end (depth first).
bfs_step_lifo(st, b, f) ==
    IF st.queue = <<>>
    THEN [st EXCEPT !.done = TRUE, !.result = <<>>]
    ELSE LET e == st.queue[Len(st.queue)]
             rest == SubSeq(st.queue, 1, Len(st.queue) - 1)
         IN IF e.cell = f
            THEN [st EXCEPT !.queue = rest, !.done = TRUE, !.result = e.path]
            ELSE LET n == bfs_neighbors(1, e.cell, e.path, rest, st.visited, b)
                 IN [st EXCEPT !.queue = n.queue, !.visited = n.visited]

\* Mutant: the entry at the front of the queue is read but not removed.
bfs_step_no_pop(st, b, f) ==
    IF st.queue = <<>>
    THEN [st EXCEPT !.done = TRUE, !.result = <<>>]
    ELSE LET e == Head(st.queue)
             rest == st.queue
         IN IF e.cell = f
            THEN [st EXCEPT !.queue = rest, !.done = TRUE, !.result = e.path]
            ELSE LET n == bfs_neighbors(1, e.cell, e.path, rest, st.visited, b)
                 IN [st EXCEPT !.queue = n.queue, !.visited = n.visited]

\* One pass of the while loop (or the fall-through return when the queue
\* is empty).
bfs_step(st, b, f) ==
    IF st.queue = <<>>
    THEN [st EXCEPT !.done = TRUE, !.result = <<>>]
    ELSE LET e == Head(st.queue)
             rest == Tail(st.queue)
         IN IF e.cell = f
            THEN [st EXCEPT !.queue = rest, !.done = TRUE, !.result = e.path]
            ELSE LET n == bfs_neighbors(1, e.cell, e.path, rest, st.visited, b)
                 IN [st EXCEPT !.queue = n.queue, !.visited = n.visited]

RECURSIVE bfs_run(_, _, _)
bfs_run(st, b, f) ==
    IF st.done THEN st.result ELSE bfs_run(bfs_step(st, b, f), b, f)

\* Snake.bfs: the path from the head to the food, [] when there is none.
bfs(b, f) == bfs_run(bfs_init(b), b, f)

\* ------------------------------------------------------------ autopilot
\* The direction toggle_autopilot hands to set_direction: from the head to
\* the first cell of the path; "-" when bfs returns no path.
autopilot_request(b, f) ==
    LET path == bfs(b, f) IN
    IF path # <<>>
    THEN LET snake_head_x == path[1][1] - get_current_position(b)[1]
             snake_head_y == path[1][2] - get_current_position(b)[2]
         IN CASE snake_head_x > 0 -> "RIGHT"
              [] snake_head_x < 0 -> "LEFT"
              [] snake_head_y > 0 -> "DOWN"
              [] snake_head_y < 0 -> "UP"
              [] OTHER -> "-"
    ELSE "-"

\* Mutant: the direction of the path is assigned without set_direction.
toggle_autopilot_unchecked(b, cur, f) ==
    LET request == autopilot_request(b, f) IN
    [direction |-> IF request # "-" THEN request ELSE cur,
     request |-> request]

\* Snake.toggle_autopilot: the heading after it, and the direction it
\* handed to set_direction.
toggle_autopilot(b, cur, f) ==
    LET request == autopilot_request(b, f) IN
    [direction |-> IF request # "-" THEN set_direction(cur, request) ELSE cur,
     request |-> request]

\* ---------------------------------------------------------------- update
\* Mutant: the collision pre-check is dropped.
may_move_always(b) == TRUE

\* The guard of the move: no wall and no self collision before it.
may_move(b) == ~has_collided_with_wall(b) /\ ~has_collided_with_self(b)

\* Mutant: the displacement is not scaled by the segment size.
new_snake_head_position_unscaled(b, dir) ==
    <<get_current_position(b)[1] + DirectionValue(dir)[1],
      get_current_position(b)[2] + DirectionValue(dir)[2]>>

new_snake_head_position(b, dir) ==
    <<get_current_position(b)[1] + SNAKE_SIZE_X_Y * DirectionValue(dir)[1],
      get_current_position(b)[2] + SNAKE_SIZE_X_Y * DirectionValue(dir)[2]>>

\* Mutant: the tail is popped whether or not the food was reached.
pop_unless_food_always(appended, f) == Tail(appended)

\* The body after the append: the tail is popped unless the head is on
\* the food.
pop_unless_food(appended, f) ==
    IF ~has_collided_with_food(appended, f) THEN Tail(appended) ELSE appended

\* Snake.update: the body and heading after it, the direction the autopilot
\* asked for ("-" when it asked for none), and the branch taken ("halted":
\* no move, "moved": translated, "grew": tail kept).
update(b, cur, auto, f) ==
    LET steered == IF auto THEN toggle_autopilot(b, cur, f)
                   ELSE [direction |-> cur, request |-> "-"]
        dir == steered.direction
        request == steered.request
    IN IF may_move(b)
       THEN LET appended == Append(b, new_snake_head_position(b, dir))
            IN [body |-> pop_unless_food(appended, f),
                direction |-> dir,
                request |-> request,
                branch |-> IF has_collided_with_food(appended, f)
                           THEN "grew" ELSE "moved"]
       ELSE [body |-> b, direction |-> dir, request |-> request,
             branch |-> "halted"]

\* The number of cells Snake.__init__ gives the body.
InitialLength == 4

\* Snake.__init__(x, y): the four-cell body, tail first.
snake_init_body(x, y) ==
    << <<x, y>>,
       <<x + SNAKE_SIZE_X_Y, y>>,
       <<x + SNAKE_SIZE_X_Y * 2, y>>,
       <<x + SNAKE_SIZE_X_Y * 3, y>> >>

\* ------------------------------------------------------------------ food
\* Food.calculate_new_position: every cell random.randint (both ends
\* inclusive) can produce.
\* Mutant: one cell more on each axis.
calculate_new_position_past_end ==
    {<<i * FOOD_SIZE_X_Y, j * FOOD_SIZE_X_Y>> :
        i \in 0..(MAX_DISPLAY_WIDTH + 1), j \in 0..(MAX_DISPLAY_HEIGHT + 1)}

calculate_new_position ==
    {<<i * FOOD_SIZE_X_Y, j * FOOD_SIZE_X_Y>> :
        i \in 0..MAX_DISPLAY_WIDTH, j \in 0..MAX_DISPLAY_HEIGHT}

\* ------------------------------------------------------------ construction
\* GameController.initialize_game: score 0, Snake(SNAKE_SIZE_X_Y,
\* SNAKE_SIZE_X_Y), Food(FOOD_SIZE_X_Y, FOOD_SIZE_X_Y).
initialize_game ==
    [body |-> snake_init_body(SNAKE_SIZE_X_Y, SNAKE_SIZE_X_Y),
     direction |-> "RIGHT",
     autopilot |-> FALSE,
     food |-> <<FOOD_SIZE_X_Y, FOOD_SIZE_X_Y>>,
     score |-> 0]

Idle == [queue |-> <<>>, visited |-> <<>>, done |-> TRUE, result |-> <<>>]

Op(o, a, br) == [op |-> o, arg |-> a, branch |-> br]

Init ==
    /\ body = initialize_game.body
    /\ direction = initialize_game.direction
    /\ autopilot = initialize_game.autopilot
    /\ food = initialize_game.food
    /\ score = initialize_game.score
    /\ pc = "input"
    /\ search = Idle
    /\ ticks = 0
    /\ last = Op("init", "-", "-")

\* ------------------------------------------- the objects under any caller
\* snake.set_direction(d)
SetDirection(d) ==
    /\ direction' = set_direction(direction, d)
    /\ last' = Op("set_direction", d, "-")
    /\ UNCHANGED <<body, autopilot, food, score, pc, search, ticks>>

\* snake.update(food)
Update ==
    LET u == update(body, direction, autopilot, food) IN
    /\ ticks < MaxTicks
    /\ ticks' = ticks + 1
    /\ body' = u.body
    /\ direction' = u.direction
    /\ last' = Op("update", u.request, u.branch)
    /\ UNCHANGED <<autopilot, food, score, pc, search>>

\* snake._autopilot = not snake._autopilot
SetAutopilot ==
    /\ autopilot' = ~autopilot
    /\ last' = Op("autopilot", "-", "-")
    /\ UNCHANGED <<body, direction, food, score, pc, search, ticks>>

\* food.update(food.calculate_new_position()): the caller places the food
\* before the snake's first update.
FoodUpdate ==
    /\ ticks = 0
    /\ \E p \in calculate_new_position :
          /\ food' = p
          /\ last' = Op("food_update", "-", "-")
    /\ UNCHANGED <<body, direction, autopilot, score, pc, search, ticks>>

\* New Snake and Food objects replace the old ones.
NewGame ==
    /\ body' = initialize_game.body
    /\ direction' = initialize_game.direction
    /\ autopilot' = initialize_game.autopilot
    /\ food' = initialize_game.food
    /\ score' = initialize_game.score
    /\ ticks' = 0
    /\ last' = Op("init", "-", "-")
    /\ UNCHANGED <<pc, search>>

Next ==
    \/ \E d \in Directions : SetDirection(d)
    \/ Update
    \/ SetAutopilot
    \/ FoodUpdate
    \/ NewGame

Spec == Init /\ [][Next]_vars

\* ------------------------------------------------------- the game loop
\* GameController.run, one pass of its loop: the events of
\* handle_user_input one at a time (pc = "input"), the game-ending check,
\* restart_or_end_game (pc = "over"), update_game_elements (pc = "update")
\* and its loop that draws food positions (pc = "relocate").

\* Mutant: only the wall ends the game.
game_ending_event_wall_only(b) == has_collided_with_wall(b)

\* _game_ending_event
game_ending_event(b) == has_collided_with_self(b) \/ has_collided_with_wall(b)

\* Whether an arrow key was handled since the last update: the steps of the
\* event loop hand the mark on in the branch field of last.
Keyed == IF last.branch = "keyed" THEN "keyed" ELSE "-"

\* An arrow key: _user_direction_input
KeyDirection(d) ==
    /\ pc = "input"
    /\ direction' = set_direction(direction, d)
    /\ last' = Op("set_direction", d, "keyed")
    /\ UNCHANGED <<body, autopilot, food, score, pc, search, ticks>>

\* The a key: _autopilot
KeyAutopilot ==
    /\ pc = "input"
    /\ autopilot' = ~autopilot
    /\ last' = Op("autopilot", "-", Keyed)
    /\ UNCHANGED <<body, direction, food, score, pc, search, ticks>>

\* The window is closed: _quit_game, in either event loop.
QuitGame ==
    /\ pc \in {"input", "over"}
    /\ pc' = "quit"
    /\ last' = Op("quit", "-", "-")
    /\ UNCHANGED <<body, direction, autopilot, food, score, search, ticks>>

\* No event is left; the game-ending check decides what follows.
GameEndingCheck ==
    /\ pc = "input"
    /\ pc' = IF game_ending_event(body) THEN "over" ELSE "update"
    /\ last' = Op("check", "-", Keyed)
    /\ UNCHANGED <<body, direction, autopilot, food, score, search, ticks>>

\* The space key in restart_or_end_game: initialize_game, then the loop
\* goes on to update_game_elements.
Restart ==
    /\ pc = "over"
    /\ body' = initialize_game.body
    /\ direction' = initialize_game.direction
    /\ autopilot' = initialize_game.autopilot
    /\ food' = initialize_game.food
    /\ score' = initialize_game.score
    /\ ticks' = 0
    /\ pc' = "update"
    /\ last' = Op("init", "-", "-")
    /\ UNCHANGED search

\* update_game_elements up to its while loop.
UpdateGameElements ==
    LET u == update(body, direction, autopilot, food) IN
    /\ pc = "update"
    /\ ticks < MaxGameTicks
    /\ ticks' = ticks + 1
    /\ body' = u.body
    /\ direction' = u.direction
    /\ IF has_collided_with_food(u.body, food)
       THEN score' = score + FOOD_SCORE /\ pc' = "relocate"
       ELSE score' = score /\ pc' = "input"
    /\ last' = [op |-> "update", arg |-> u.request, branch |-> u.branch,
                keyed |-> last.branch = "keyed"]
    /\ UNCHANGED <<autopilot, food, search>>

\* One pass of the while loop: a position is drawn, and taken unless it is
\* a cell of the body.
Relocate ==
    /\ pc = "relocate"
    /\ \E new_food_position \in calculate_new_position :
          IF new_food_position \notin SeqRange(body)
          THEN /\ food' = new_food_position
               /\ pc' = "input"
               /\ last' = Op("relocate", "-", "placed")
          ELSE /\ last' = Op("relocate", "-", "retry")
               /\ UNCHANGED <<food, pc>>
    /\ UNCHANGED <<body, direction, autopilot, score, search, ticks>>

GameNext ==
    \/ \E d \in Directions : KeyDirection(d)
    \/ KeyAutopilot
    \/ QuitGame
    \/ GameEndingCheck
    \/ Restart
    \/ UpdateGameElements
    \/ Relocate

GameSpec == Init /\ [][GameNext]_vars

\* ------------------------------------------------ bfs as a call of its own
\* The cells of the grid and the ring of cells one step outside it.
GridCells ==
    {<<i * SNAKE_SIZE_X_Y, j * SNAKE_SIZE_X_Y>> : i \in 0..(GridW - 1), j \in 0..(GridH - 1)}

RingCells ==
    {<<i * SNAKE_SIZE_X_Y, j * SNAKE_SIZE_X_Y>> : i \in -1..GridW, j \in -1..GridH}

Adjacent(c, e) ==
    \E d \in Directions :
        e = <<c[1] + SNAKE_SIZE_X_Y * DirectionValue(d)[1],
              c[2] + SNAKE_SIZE_X_Y * DirectionValue(d)[2]>>

\* Sequences of n grid cells, each one step from the one before it.
RECURSIVE GridWalks(_)
GridWalks(n) ==
    IF n = 0 THEN {<<>>}
    ELSE IF n = 1 THEN {<<c>> : c \in GridCells}
    ELSE UNION {{Append(w, c) : c \in {e \in GridCells : Adjacent(w[Len(w)], e)}} :
                   w \in GridWalks(n - 1)}

\* Bodies a snake can have: every cell one step from the one before it, all
\* cells but the head on the grid, the head on the grid or one step off it.
SnakeBodies(n) ==
    IF n = 1 THEN {<<c>> : c \in RingCells}
    ELSE UNION {{Append(w, c) : c \in {e \in RingCells : Adjacent(w[Len(w)], e)}} :
                   w \in GridWalks(n - 1)}

\* A food cell left of the grid.
OffGridFood == <<0 - FOOD_SIZE_X_Y, 0>>

\* The inputs of a bfs call: a body of one cell (no obstacle) or of the
\* length the snake is constructed with, and a food cell on the grid or
\* off it.
BfsInit ==
    /\ body \in SnakeBodies(1) \cup SnakeBodies(InitialLength)
    /\ food \in GridCells \cup {OffGridFood}
    /\ direction = "RIGHT"
    /\ autopilot = TRUE
    /\ score = 0
    /\ pc = "bfs"
    /\ ticks = 0
    /\ search = bfs_init(body)
    /\ last = Op("bfs", "-", "-")

\* One pass of the while loop of bfs.
BfsStep ==
    /\ ~search.done
    /\ search' = bfs_step(search, body, food)
    /\ UNCHANGED <<body, direction, autopilot, food, score, pc, ticks, last>>

BfsSpec == BfsInit /\ [][BfsStep]_vars

\* ------------------------------- the food loop as a call of its own
\* A body that fills the grid row by row, turning at the end of each row;
\* fx and fy mirror it left to right and top to bottom.
FullBody(fx, fy) ==
    [k \in 1..(GridW * GridH) |->
        LET j == (k - 1) \div GridW
            i == IF j % 2 = 0 THEN (k - 1) % GridW
                 ELSE GridW - 1 - ((k - 1) % GridW)
        IN <<SNAKE_SIZE_X_Y * (IF fx THEN GridW - 1 - i ELSE i),
             SNAKE_SIZE_X_Y * (IF fy THEN GridH - 1 - j ELSE j)>>]

\* The bodies of a snake that eats its way along such a path, from its
\* second meal to the meal that fills the grid.
FillingBodies ==
    {SubSeq(FullBody(fx, fy), 1, n) :
        fx \in BOOLEAN, fy \in BOOLEAN,
        n \in (InitialLength + 2)..(GridW * GridH)}

\* update_game_elements at its while loop: the head has just landed on the
\* food, the body has grown and the score has been increased.
RelocateInit ==
    /\ body \in FillingBodies
    /\ food = body[Len(body)]
    /\ direction \in {d \in Directions :
                        new_snake_head_position(SubSeq(body, 1, Len(body) - 1), d)
                            = body[Len(body)]}
    /\ autopilot = FALSE
    /\ score = (Len(body) - InitialLength) * FOOD_SCORE
    /\ pc = "relocate"
    /\ ticks = 0
    /\ search = Idle
    /\ last = [op |-> "update", arg |-> "-", branch |-> "grew",
               keyed |-> FALSE]

RelocateSpec == RelocateInit /\ [][Relocate]_vars

\* ============================================================== properties
\* The cells of the grid, by index.
Cells ==
    {<<i * SNAKE_SIZE_X_Y, j * SNAKE_SIZE_X_Y>> : i \in 0..(GridW - 1), j \in 0..(GridH - 1)}

Plus(c, d) ==
    <<c[1] + SNAKE_SIZE_X_Y * DirectionValue(d)[1],
      c[2] + SNAKE_SIZE_X_Y * DirectionValue(d)[2]>>

\* r is the exact reverse of h: their vectors cancel.
Reverse(h, r) ==
    /\ DirectionValue(h)[1] + DirectionValue(r)[1] = 0
    /\ DirectionValue(h)[2] + DirectionValue(r)[2] = 0

HeadOf(b) == b[Len(b)]

\* The head is off the grid, or on another cell of the body.
Collided(b) ==
    \/ HeadOf(b) \notin Cells
    \/ \E i \in 1..(Len(b) - 1) : b[i] = HeadOf(b)

\* C1: set_direction(R) with heading H leaves the heading H when R is the
\* exact opposite of H and makes it R otherwise; the body is not changed.
C1_SetDirection ==
    [][last'.op = "set_direction" =>
          /\ direction' = IF Reverse(direction, last'.arg)
                          THEN direction ELSE last'.arg
          /\ body' = body]_vars

\* A reversal was requested and ignored.
C1_Witness ==
    /\ last.op = "set_direction"
    /\ last.arg = "LEFT"
    /\ direction = "RIGHT"

\* C2: an update from a state without wall or self collision whose new head
\* is not the food cell keeps the length, puts the head one segment size
\* along the heading used for the move, and drops the old tail: the new
\* body is the old body without its first cell, followed by the new head.
C2_Translation ==
    [][(/\ last'.op = "update"
        /\ ~Collided(body)
        /\ Plus(HeadOf(body), direction') # food)
       => /\ Len(body') = Len(body)
          /\ HeadOf(body') = Plus(HeadOf(body), direction')
          /\ body' = Append(Tail(body), Plus(HeadOf(body), direction'))
          /\ (~autopilot => direction' = direction)]_vars

C2_Witness ==
    /\ last.op = "update"
    /\ last.branch = "moved"
    /\ food # HeadOf(body)

\* C3: an update from a state without wall or self collision whose new head
\* is the food cell lengthens the body by one, keeps the tail cell, and the
\* new body is the old body followed by the new head.
C3_Growth ==
    [][(/\ last'.op = "update"
        /\ ~Collided(body)
        /\ Plus(HeadOf(body), direction') = food)
       => /\ Len(body') = Len(body) + 1
          /\ body'[1] = body[1]
          /\ body' = Append(body, Plus(HeadOf(body), direction'))]_vars

C3_Witness ==
    /\ last.op = "update"
    /\ last.branch = "grew"
    /\ food = HeadOf(body)

\* C4: an update of a snake whose head already has a wall or self collision
\* leaves the body unchanged; under update and set_direction a collision
\* predicate that is true stays true and the body stays frozen.
C4_HaltedTerminal ==
    [][(/\ last'.op \in {"update", "set_direction"}
        /\ (has_collided_with_wall(body) \/ has_collided_with_self(body)))
       => /\ body' = body
          /\ has_collided_with_wall(body) => has_collided_with_wall(body')
          /\ has_collided_with_self(body) => has_collided_with_self(body')]_vars

\* An update found the snake already collided.
C4_Witness ==
    /\ last.op = "update"
    /\ last.branch = "halted"
    /\ has_collided_with_self(body)

WallIff(b) ==
    has_collided_with_wall(b) <=>
        ~(/\ HeadOf(b)[1] \in 0..(DISPLAY_WIDTH - SNAKE_SIZE_X_Y)
          /\ HeadOf(b)[2] \in 0..(DISPLAY_HEIGHT - SNAKE_SIZE_X_Y))

\* A step off the grid's edge: from x = 0 leftwards, y = 0 upwards, the last
\* column rightwards, the last row downwards.
OffEdge(c, d) ==
    \/ c[1] = 0 /\ d = "LEFT"
    \/ c[2] = 0 /\ d = "UP"
    \/ c[1] = DISPLAY_WIDTH - SNAKE_SIZE_X_Y /\ d = "RIGHT"
    \/ c[2] = DISPLAY_HEIGHT - SNAKE_SIZE_X_Y /\ d = "DOWN"

WallAfterAdvance ==
    (/\ last.op = "update"
     /\ last.branch # "halted"
     /\ OffEdge(body[Len(body) - 1], direction))
    => has_collided_with_wall(body)

\* C5: has_collided_with_wall is true exactly when the head's x is outside
\* [0, width - segment size] or its y outside [0, height - segment size];
\* an advance off an edge of the grid reports wall collision, and a head on
\* a cell of the grid does not.  The single-cell bodies cover every cell
\* and direction.
C5_WallCollision ==
    /\ \A c \in Cells, d \in Directions :
          LET u == update(<<c>>, d, FALSE, c) IN
          /\ ~has_collided_with_wall(<<c>>)
          /\ WallIff(u.body)
          /\ OffEdge(c, d) <=> has_collided_with_wall(u.body)
    /\ WallIff(body)
    /\ has_collided_with_wall(body) <=> HeadOf(body) \notin Cells
    /\ [][/\ WallIff(body')
          /\ has_collided_with_wall(body') <=> HeadOf(body') \notin Cells
          /\ WallAfterAdvance']_vars

\* An advance off the right edge or the top edge was made.
C5_Witness ==
    /\ last.op = "update"
    /\ last.branch = "moved"
    /\ has_collided_with_wall(body)
    /\ \/ HeadOf(body)[1] = DISPLAY_WIDTH
       \/ HeadOf(body)[2] = 0 - SNAKE_SIZE_X_Y

SelfIff(b) ==
    has_collided_with_self(b) <=> \E i \in 1..(Len(b) - 1) : b[i] = b[Len(b)]

\* C6: has_collided_with_self is true exactly when the head equals another
\* element of the body; it is false for a body of length 1, and false after
\* an advance whose new head was not a cell of the body before the move.
C6_SelfCollision ==
    /\ SelfIff(body)
    /\ \A c \in Cells : ~has_collided_with_self(<<c>>)
    /\ [][/\ SelfIff(body')
          /\ (/\ last'.op = "update"
              /\ last'.branch # "halted"
              /\ HeadOf(body') \notin SeqRange(body))
             => ~has_collided_with_self(body')]_vars

\* An advance put the head on a cell of the body.
C6_Witness ==
    /\ last.op = "update"
    /\ last.branch = "moved"
    /\ has_collided_with_self(body)

\* The cells a path may use: on the grid and not a body cell other than the
\* head.
OpenCells(b) == Cells \ {b[i] : i \in 1..(Len(b) - 1)}

Neighbours(c) == {Plus(c, d) : d \in Directions}

\* The least number of steps from a cell of frontier to t over open cells,
\* by levels; -1 when t cannot be reached.
RECURSIVE StepsFrom(_, _, _, _, _)
StepsFrom(frontier, seen, t, open, k) ==
    IF t \in frontier THEN k
    ELSE LET next == (UNION {Neighbours(c) : c \in frontier} \cap open) \ seen
         IN IF next = {} THEN -1
            ELSE StepsFrom(next, seen \cup next, t, open, k + 1)

MinSteps(b, t) == StepsFrom({HeadOf(b)}, {HeadOf(b)}, t, OpenCells(b), 0)

Abs(n) == IF n < 0 THEN 0 - n ELSE n

Manhattan(c, e) == Abs(c[1] - e[1]) + Abs(c[2] - e[2])

\* C7: for a head on the grid, a non-empty path returned by bfs excludes
\* the head, starts one step from it, proceeds by single steps, ends on the
\* food, stays on open cells, and is as short as any such path; without
\* obstacles its length is the Manhattan distance over the segment size.
C7_BfsShortestPath ==
    (/\ search.done
     /\ search.result # <<>>
     /\ HeadOf(body) \in Cells)
    => LET P == search.result IN
       /\ HeadOf(body) \notin SeqRange(P)
       /\ P[1] \in Neighbours(HeadOf(body))
       /\ \A i \in 1..(Len(P) - 1) : P[i + 1] \in Neighbours(P[i])
       /\ P[Len(P)] = food
       /\ \A i \in 1..Len(P) : P[i] \in OpenCells(body)
       /\ Len(P) = MinSteps(body, food)
       /\ Len(body) = 1
             => Len(P) * SNAKE_SIZE_X_Y = Manhattan(HeadOf(body), food)

\* A path that has to go round the body.
C7_Witness ==
    /\ search.done
    /\ search.result # <<>>
    /\ HeadOf(body) \in Cells
    /\ Len(search.result) * SNAKE_SIZE_X_Y > Manhattan(HeadOf(body), food)

\* C8: bfs returns the empty sequence exactly when the head is on the food
\* or no path of open cells leads from the head to the food.
C8_BfsEmptyIff ==
    search.done
    => (search.result = <<>>
           <=> (HeadOf(body) = food \/ MinSteps(body, food) = -1))

\* The food is on a free cell of the grid that the body walls off.
C8_Witness ==
    /\ search.done
    /\ search.result = <<>>
    /\ HeadOf(body) \in Cells
    /\ food \in OpenCells(body)
    /\ food # HeadOf(body)

\* C9: between ticks, from the start of a session on, the food cell is not
\* a cell of the snake's body.
C9_FoodOffBody ==
    pc = "input" => food \notin SeqRange(body)

\* After the first update of a session the food is off the body between
\* ticks.
C9_FoodOffBodyAfterFirstTick ==
    (pc = "input" /\ ticks >= 1) => food \notin SeqRange(body)

Towards(c, e) == CHOOSE d \in Directions : Plus(c, d) = e

\* C11: an update with autopilot enabled decides the heading before the
\* body changes: when bfs returns a path the heading becomes the direction
\* from the head to the first cell of the path, unless that is the exact
\* opposite of the current heading, and then it is unchanged; when bfs
\* returns no path the heading is unchanged.  The move, if one is made,
\* follows the heading so decided.  An update with autopilot disabled
\* does not change the heading.
C11_AutopilotHeading ==
    [][last'.op = "update" =>
          LET P == IF autopilot THEN bfs(body, food) ELSE <<>> IN
          /\ ~autopilot => direction' = direction
          /\ (autopilot /\ P = <<>>) => direction' = direction
          /\ (autopilot /\ P # <<>>) =>
                LET d == Towards(HeadOf(body), P[1]) IN
                /\ Plus(HeadOf(body), d) = P[1]
                /\ direction' = IF Reverse(direction, d) THEN direction ELSE d
          /\ last'.branch # "halted"
                => HeadOf(body') = Plus(HeadOf(body), direction')]_vars

\* The autopilot asked for the reverse of the heading and was ignored.
C11_Witness ==
    /\ last.op = "update"
    /\ autopilot
    /\ last.arg \in Directions
    /\ Reverse(direction, last.arg)

\* The autopilot turned the snake.
C11_WitnessTurn ==
    /\ last.op = "update"
    /\ autopilot
    /\ last.branch = "moved"
    /\ last.arg = direction
    /\ Plus(body[Len(body) - 2], direction) # body[Len(body) - 1]

\* Two cells one segment size apart along exactly one axis.
OneStepApart(c, e) ==
    \/ c[1] = e[1] /\ Abs(c[2] - e[2]) = SNAKE_SIZE_X_Y
    \/ c[2] = e[2] /\ Abs(c[1] - e[1]) = SNAKE_SIZE_X_Y

\* C12: in every state reached by set_direction, update, food placement
\* and re-construction the body is not empty and every two cells next to
\* each other in it are one segment size apart along exactly one axis.
C12_BodyShape ==
    /\ Len(body) >= 1
    /\ \A i \in 1..(Len(body) - 1) : OneStepApart(body[i], body[i + 1])

\* A snake that has grown and turned a corner.
C12_Witness ==
    /\ last.op = "update"
    /\ Len(body) > InitialLength
    /\ \E i \in 1..(Len(body) - 2) :
          body[i][1] # body[i + 2][1] /\ body[i][2] # body[i + 2][2]

\* C13: the direction moved on a tick is never the exact reverse of the
\* direction moved on the tick before it, whatever direction commands are
\* handled between the two: after the second and every later move of a
\* session the head is not on the cell it left one tick earlier (the cell
\* two places before it in the body).
C13_NoReversal ==
    (/\ last.op = "update"
     /\ last.branch # "halted"
     /\ ticks >= 2)
    => body[Len(body)] # body[Len(body) - 2]

\* The cells put on the queue of bfs so far, in order: the head, with which
\* the queue starts, then every cell appended to segments_visited (each is
\* queued in the same step).
Queued == <<HeadOf(body)>> \o search.visited

\* C14: during a call of bfs no cell, the head's cell included, is put on
\* the queue more than once.
C14_QueuedOnce ==
    \A i, j \in 1..Len(Queued) : i # j => Queued[i] # Queued[j]

\* Every cell but the head's is queued at most once, and the head's at
\* most twice.
C14_QueuedOnceButHead ==
    /\ \A i, j \in 1..Len(search.visited) :
          i # j => search.visited[i] # search.visited[j]
    /\ Cardinality({i \in 1..Len(Queued) : Queued[i] = HeadOf(body)}) <= 2

\* The sets of cells 0, 1, 2, ... steps from the cells of frontier over
\* open cells, nearest first.
RECURSIVE LevelsFrom(_, _, _, _)
LevelsFrom(frontier, seen, open, acc) ==
    IF frontier = {} THEN acc
    ELSE LET next == (UNION {Neighbours(c) : c \in frontier} \cap open) \ seen
         IN LevelsFrom(next, seen \cup next, open, Append(acc, frontier))

\* From cell c, which is in levels[k], to the cell of levels[1]: at every
\* cell the first direction of Direction that leads one level down.
RECURSIVE FirstDescent(_, _, _)
FirstDescent(c, k, levels) ==
    IF k = 1 THEN <<>>
    ELSE LET i == CHOOSE n \in 1..Len(Direction) :
                     /\ Plus(c, Direction[n]) \in levels[k - 1]
                     /\ \A m \in 1..(n - 1) :
                           Plus(c, Direction[m]) \notin levels[k - 1]
         IN <<Plus(c, Direction[i])>>
               \o FirstDescent(Plus(c, Direction[i]), k - 1, levels)

\* The shortest path from the head to t whose moves come first in the
\* order of Direction (UP, DOWN, LEFT, RIGHT), compared move by move.
LeastShortestPath(b, t) ==
    LET levels == LevelsFrom({t}, {t}, OpenCells(b) \cup {HeadOf(b)}, <<>>)
        k == CHOOSE n \in 1..Len(levels) : HeadOf(b) \in levels[n]
    IN FirstDescent(HeadOf(b), k, levels)

\* C15: the path bfs returns is determined by the head, the body, the food
\* and the bounds of the grid: a non-empty result is the one shortest path
\* over open cells whose sequence of moves is the least in lexicographic
\* order under UP < DOWN < LEFT < RIGHT.
C15_BfsTieBreak ==
    (search.done /\ search.result # <<>>)
    => search.result = LeastShortestPath(body, food)

\* Two shortest paths exist: the food is on another row and another column
\* than the head, and no body cell is in the way.
C15_Witness ==
    /\ search.done
    /\ search.result # <<>>
    /\ Len(body) = 1
    /\ HeadOf(body)[1] # food[1]
    /\ HeadOf(body)[2] # food[2]

\* C16: the loop that draws a new food position always completes: in every
\* state in which it runs it has a way out, either a position off the body
\* that it takes or, when the body covers every position that can be
\* drawn, a step that ends the retrying.
C16_RelocationCompletes ==
    pc = "relocate" => ENABLED (Relocate /\ pc' # "relocate")

\* The loop has a way out whenever some position that can be drawn is off
\* the body, and the position it takes is off the body.
C16_RelocationCompletesWhenFree ==
    /\ (pc = "relocate" /\ calculate_new_position \ SeqRange(body) # {})
          => ENABLED (Relocate /\ pc' # "relocate")
    /\ (last.op = "relocate" /\ last.branch = "placed")
          => food \notin SeqRange(body)

\* The state a session starts in: four cells in a row from (size, size),
\* heading right, autopilot off, the food on (size, size), score 0.
FreshGame(b, d, a, f, sc) ==
    /\ b = [i \in 1..InitialLength |-> <<i * SNAKE_SIZE_X_Y, SNAKE_SIZE_X_Y>>]
    /\ d = "RIGHT"
    /\ a = FALSE
    /\ f = <<FOOD_SIZE_X_Y, FOOD_SIZE_X_Y>>
    /\ sc = 0

\* C17: a collision made by the move of one tick is reported as game over
\* at the start of the next tick, before any further update: the check
\* that follows the events sends a collided snake to the game-over screen,
\* update is never called on a snake with a wall or self collision, the
\* game-over screen is left only by a restart or by quitting, and a restart
\* puts the snake, the food, the heading, the autopilot flag and the score
\* back to their values at the start of a session.
C17_GameOverTiming ==
    /\ FreshGame(body, direction, autopilot, food, score)
    /\ [][/\ pc' = "update" => ~Collided(body')
          /\ last'.op = "update" => ~Collided(body)
          /\ (last'.op = "check" /\ Collided(body)) => pc' = "over"
          /\ (last'.op = "check" /\ ~Collided(body)) => pc' = "update"
          /\ pc = "over" => last'.op \in {"init", "quit"}
          /\ last'.op = "init"
                => FreshGame(body', direction', autopilot', food', score')]_vars

\* The game-over screen was left by a restart: update_game_elements is
\* about to run on the new snake.
C17_Witness ==
    /\ last.op = "init"
    /\ pc = "update"

\* What is left of a call of bfs: nothing when it has returned; otherwise
\* one for the pass that returns, two for every cell of the grid not yet
\* appended to segments_visited, and one for every entry of the queue.
Remaining(st) ==
    IF st.done THEN 0
    ELSE 1 + 2 * (GridW * GridH - Len(st.visited)) + Len(st.queue)

\* C18: every call of bfs terminates, whatever the head, the body and the
\* food, the cases included in which the food cannot be reached, is off
\* the grid or is on a body cell: a call that has not returned can make a
\* pass of its loop that changes its state, segments_visited never holds
\* more cells than the grid has, and every pass makes what is left of the
\* call smaller, so that a call returns within Remaining passes.
C18_BfsTerminates ==
    /\ [](~search.done => ENABLED <<BfsStep>>_vars)
    /\ [](Len(search.visited) <= GridW * GridH)
    /\ [][Remaining(search') < Remaining(search)]_vars

\* A call returned although the food was off the grid, and one although
\* it was on a body cell.
C18_Witness ==
    /\ search.done
    /\ Len(search.visited) > 0
    /\ \/ food = OffGridFood
       \/ \E i \in 1..(Len(body) - 1) : body[i] = food

\* C19: within a session the food cell changes only in a tick in which
\* the head has just landed on it: the steps of set_direction, of the
\* autopilot key, of the game-ending check and of update (the search for a
\* path included) leave the food where it is, and a step that moves it is
\* a pass of the driver's loop made while the head is on the food, which
\* leaves the snake as it is.
C19_FoodFrame ==
    [][/\ last'.op \in {"set_direction", "autopilot", "check", "quit", "update"}
             => food' = food
       /\ (food' # food /\ last'.op # "init")
             => /\ last'.op = "relocate"
                /\ last.op \in {"update", "relocate"}
                /\ HeadOf(body) = food
                /\ body' = body
                /\ direction' = direction]_vars

\* The food was moved after the snake ate it with autopilot on.
C19_Witness ==
    /\ last.op = "relocate"
    /\ last.branch = "placed"
    /\ autopilot
    /\ food # HeadOf(body)

\* C20: an update of the game loop with autopilot enabled and no arrow key
\* handled since the update before it, made from a state without
\* collision in which bfs returns a path, puts the head on the first cell
\* of that path, and the state after it has no wall and no self collision.
C20_SafeAutopilotStep ==
    [][(/\ last'.op = "update"
        /\ autopilot
        /\ last.branch # "keyed"
        /\ ~Collided(body)
        /\ bfs(body, food) # <<>>)
       => /\ HeadOf(body') = bfs(body, food)[1]
          /\ last'.branch # "halted"
          /\ ~has_collided_with_wall(body')
          /\ ~has_collided_with_self(body')
          /\ ~Collided(body')]_vars

\* The autopilot steered an update before which no arrow key was handled.
C20_Witness ==
    /\ last.op = "update"
    /\ autopilot
    /\ ~last.keyed
    /\ last.arg \in Directions
    /\ last.branch = "moved"

\* How far a coordinate v is outside 0..(extent - segment size).
Outside(v, extent) ==
    IF v < 0 THEN 0 - v
    ELSE IF v > extent - SNAKE_SIZE_X_Y THEN v - (extent - SNAKE_SIZE_X_Y)
    ELSE 0

\* C21: in every reachable state every body cell but the head is on the
\* grid (a head on it would not report wall collision), the head is at
\* most one segment size outside the grid and outside it on at most one
\* axis, and no two body cells other than the head are equal.
C21_BoundedOvershoot ==
    /\ \A i \in 1..(Len(body) - 1) :
          /\ body[i] \in Cells
          /\ ~has_collided_with_wall(<<body[i]>>)
    /\ Outside(HeadOf(body)[1], DISPLAY_WIDTH)
          + Outside(HeadOf(body)[2], DISPLAY_HEIGHT) <= SNAKE_SIZE_X_Y
    /\ Outside(HeadOf(body)[1], DISPLAY_WIDTH) = 0
          \/ Outside(HeadOf(body)[2], DISPLAY_HEIGHT) = 0
    /\ \A i, j \in 1..(Len(body) - 1) : i # j => body[i] # body[j]

\* A snake that has grown left the grid by one segment size, and a further
\* update found it there.
C21_Witness ==
    /\ last.op = "update"
    /\ last.branch = "halted"
    /\ Len(body) > InitialLength
    /\ Outside(HeadOf(body)[1], DISPLAY_WIDTH)
          + Outside(HeadOf(body)[2], DISPLAY_HEIGHT) = SNAKE_SIZE_X_Y
====
